---- MODULE Spec2Model ----
(***************************************************************************)
(* Model of prefect.orion.models.deployments.schedule_runs and its two     *)
(* helpers _generate_scheduled_flow_runs and _insert_scheduled_flow_runs.  *)
(*                                                                         *)
(* Every invocation runs on its own database session.  A session is a      *)
(* transaction: the rows it writes with session.execute are visible to the *)
(* session itself at once and to every other session only after the       *)
(* caller's commit.  flow_run and flow_run_state are the committed tables; *)
(* txRuns[i] and txStates[i] are the rows written by invocation i and      *)
(* txDeleted[i] the committed rows its statements replaced.  A statement   *)
(* that raises makes the caller roll the session back.                     *)
(*                                                                         *)
(* Spec is the function under concurrent callers.  SpecSingle follows one  *)
(* invocation with the arguments of the caller on record, over a table     *)
(* with a deployment that has no flow_id and with an enumeration that can  *)
(* fail.  SpecRetry follows callers that call in turn and retry after a    *)
(* failure that came after the batch insert.  SpecForeign starts from a    *)
(* table that holds a run without state, SpecRepeating from a schedule     *)
(* that yields every date twice.                                           *)
(***************************************************************************)
EXTENDS Integers, Sequences, FiniteSets, TLC

\* ------------------------------------------------------------------ bounds
NumInvocations == 2
MaxTime == 2
MaxRunsArg == 1

Invocations == 1..NumInvocations
Times == 0..(MaxTime - 1)

\* --------------------------------------------------- process-wide settings
scheduler_max_runs == 2
scheduler_max_scheduled_time == 1

\* ------------------------------------------------------------- deployments
DeploymentIds == {"d1", "d2", "d3", "d4"}

Deployment(exists, flow, hasSchedule, schedule, active) ==
    [exists |-> exists, flow_id |-> flow, has_schedule |-> hasSchedule,
     schedule |-> schedule, is_schedule_active |-> active,
     tags |-> <<"prod">>, parameters |-> "params", repeats |-> FALSE]

\* the Deployment table: d1 has an active schedule that fires at every time,
\* d2 is no row of the table, d3 has no schedule, d4 has an inactive one
DeploymentTable ==
    [d \in DeploymentIds |->
        CASE d = "d1" -> Deployment(TRUE, "f1", TRUE, Times, TRUE)
          [] d = "d2" -> Deployment(FALSE, "f2", FALSE, {}, FALSE)
          [] d = "d3" -> Deployment(TRUE, "f3", FALSE, {}, TRUE)
          [] OTHER -> Deployment(TRUE, "f4", TRUE, Times, FALSE)]

VARIABLES
    deployments,            \* the Deployment table
    flow_run,               \* committed FlowRun rows
    flow_run_state,         \* committed FlowRunState rows
    pc,                     \* position of each invocation
    args,                   \* effective arguments of each invocation
    runs,                   \* the candidate list of each invocation
    idx,                    \* next row of the batch insert
    txRuns,                 \* FlowRun rows written by the invocation
    txDeleted,              \* committed FlowRun rows it replaced
    txStates,               \* FlowRunState rows written by the invocation
    inserted_flow_run_ids,  \* result of the probe
    result,                 \* the returned list
    took,                   \* history: positions whose insert took effect
    collided,               \* history: positions skipped on a key conflict
    finishedBefore,         \* history: invocations over when this one began
    given                   \* history: the arguments as the caller passed them

vars == <<deployments, flow_run, flow_run_state, pc, args, runs, idx, txRuns,
          txDeleted, txStates, inserted_flow_run_ids, result, took, collided,
          finishedBefore, given>>

NoState == <<>>
None == -1
NoArgs == [deployment_id |-> "d1", start_time |-> 0, end_time |-> 0, max_runs |-> 0]
NoFlowId == "None"
NotGiven == [deployment_id |-> "d1", start_time |-> None, end_time |-> None,
             max_runs |-> None, now |-> 0]

\* ----------------------------------------------------------------- helpers
Min(a, b) == IF a <= b THEN a ELSE b

RECURSIVE Ascending(_)
Ascending(S) ==
    IF S = {} THEN <<>>
    ELSE LET m == CHOOSE x \in S : \A y \in S : x <= y
         IN <<m>> \o Ascending(S \ {m})

Range(s) == { s[k] : k \in 1..Len(s) }

\* schedule.get_dates(n, start, end): at most n dates in [start, end), ascending
get_dates(schedule, n, start, end) ==
    LET all == Ascending({ t \in schedule : start <= t /\ t < end })
    IN SubSeq(all, 1, Min(n, Len(all)))

\* an enumerator that yields every date of the schedule twice
get_dates_repeating(schedule, n, start, end) ==
    LET all == Ascending({ t \in schedule : start <= t /\ t < end })
        twice == [k \in 1..(2 * Len(all)) |-> all[(k + 1) \div 2]]
    IN SubSeq(twice, 1, Min(n, Len(twice)))

\* await deployment.schedule.get_dates(n=max_runs, start=start_time, end=end_time)
dates_of(deployment, n, start, end) ==
    IF deployment.repeats
    THEN get_dates_repeating(deployment.schedule, n, start, end)
    ELSE get_dates(deployment.schedule, n, start, end)

\* f"scheduled {deployment.id} {date}"
IdempotencyKey(deployment_id, date) == <<"scheduled", deployment_id, date>>

\* faulty variant: the tags of the deployment are left out and the state is
\* scheduled for the time after the date
FlowRun_untagged_and_late(i, k, deployment, deployment_id, date) ==
    [id |-> <<i, k>>,
     flow_id |-> deployment.flow_id,
     deployment_id |-> deployment_id,
     parameters |-> deployment.parameters,
     idempotency_key |-> IdempotencyKey(deployment_id, date),
     tags |-> <<"auto-scheduled">>,
     auto_scheduled |-> TRUE,
     state |-> [type |-> "SCHEDULED", scheduled_time |-> date + 1,
                message |-> "Flow run scheduled"],
     state_type |-> "SCHEDULED",
     next_scheduled_start_time |-> date,
     expected_start_time |-> date]

\* faulty variant: the key is made of the id of the run, not of the deployment
FlowRun_keyed_by_run_id(i, k, deployment, deployment_id, date) ==
    [id |-> <<i, k>>,
     flow_id |-> deployment.flow_id,
     deployment_id |-> deployment_id,
     parameters |-> deployment.parameters,
     idempotency_key |-> <<"scheduled", <<i, k>>, date>>,
     tags |-> <<"auto-scheduled">> \o deployment.tags,
     auto_scheduled |-> TRUE,
     state |-> [type |-> "SCHEDULED", scheduled_time |-> date,
                message |-> "Flow run scheduled"],
     state_type |-> "SCHEDULED",
     next_scheduled_start_time |-> date,
     expected_start_time |-> date]

\* schemas.core.FlowRun(...) built for one date; id is the fresh uuid4 of
\* candidate k of invocation i
FlowRun(i, k, deployment, deployment_id, date) ==
    [id |-> <<i, k>>,
     flow_id |-> deployment.flow_id,
     deployment_id |-> deployment_id,
     parameters |-> deployment.parameters,
     idempotency_key |-> IdempotencyKey(deployment_id, date),
     tags |-> <<"auto-scheduled">> \o deployment.tags,
     auto_scheduled |-> TRUE,
     state |-> [type |-> "SCHEDULED", scheduled_time |-> date,
                message |-> "Flow run scheduled"],
     state_type |-> "SCHEDULED",
     next_scheduled_start_time |-> date,
     expected_start_time |-> date]

\* not deployment or not deployment.schedule or not deployment.is_schedule_active
Lacking(deployment) ==
    ~deployment.exists \/ ~deployment.has_schedule \/ ~deployment.is_schedule_active

\* faulty variant: the is_schedule_active test is left out
generate_ignoring_active(i, deployment_id, start_time, end_time, max_runs) ==
    LET deployment == deployments[deployment_id]
    IN IF ~deployment.exists \/ ~deployment.has_schedule
       THEN <<>>
       ELSE LET dates == dates_of(deployment, max_runs, start_time, end_time)
            IN [k \in 1..Len(dates) |->
                   FlowRun(i, k, deployment, deployment_id, dates[k])]

\* faulty variant: the end of the window is taken as inclusive and n as max_runs + 1
generate_past_window(i, deployment_id, start_time, end_time, max_runs) ==
    LET deployment == deployments[deployment_id]
    IN IF Lacking(deployment)
       THEN <<>>
       ELSE LET dates == dates_of(deployment, max_runs + 1, start_time,
                                  end_time + 1)
            IN [k \in 1..Len(dates) |->
                   FlowRun(i, k, deployment, deployment_id, dates[k])]

generate_scheduled_flow_runs(i, deployment_id, start_time, end_time, max_runs) ==
    LET deployment == deployments[deployment_id]
    IN IF Lacking(deployment)
       THEN <<>>
       ELSE LET dates == dates_of(deployment, max_runs, start_time, end_time)
            IN [k \in 1..Len(dates) |->
                   FlowRun(i, k, deployment, deployment_id, dates[k])]

\* the builder of the candidate refuses a deployment without flow_id
InvalidDeploymentState(deployment) == deployment.flow_id = NoFlowId

\* faulty variant: the error of the builder is caught and passed over
build_errors_swallowed(deployment_id, start_time, end_time, max_runs) == FALSE

\* for date in dates: run = schemas.core.FlowRun(...) with no try around it:
\* an error of the builder leaves _generate_scheduled_flow_runs at the first date
build_raises(deployment_id, start_time, end_time, max_runs) ==
    LET deployment == deployments[deployment_id]
    IN /\ ~Lacking(deployment)
       /\ dates_of(deployment, max_runs, start_time, end_time) # <<>>
       /\ InvalidDeploymentState(deployment)

\* faulty variant: the default end is counted from the clock, not from the
\* start time in force
effective_arguments_end_from_now(start_arg, end_arg, max_arg, now) ==
    [max_runs |-> IF max_arg = None THEN scheduler_max_runs ELSE max_arg,
     start_time |-> IF start_arg = None THEN now ELSE start_arg,
     end_time |-> IF end_arg = None THEN now + scheduler_max_scheduled_time
                  ELSE end_arg]

\* the defaults of schedule_runs: max_runs from the settings, start_time from
\* the clock, end_time from the start time in force and the horizon; times
\* are instants, which pendulum.instance keeps
effective_arguments(start_arg, end_arg, max_arg, now) ==
    LET start_time == IF start_arg = None THEN now ELSE start_arg
    IN [max_runs |-> IF max_arg = None THEN scheduler_max_runs ELSE max_arg,
        start_time |-> start_time,
        end_time |-> IF end_arg = None
                     THEN start_time + scheduler_max_scheduled_time
                     ELSE end_arg]

\* the row written for a candidate: r.dict(exclude={"created", "updated"})
Row(r) ==
    [id |-> r.id, flow_id |-> r.flow_id, deployment_id |-> r.deployment_id,
     parameters |-> r.parameters, idempotency_key |-> r.idempotency_key,
     tags |-> r.tags, auto_scheduled |-> r.auto_scheduled,
     state_type |-> r.state_type,
     next_scheduled_start_time |-> r.next_scheduled_start_time,
     expected_start_time |-> r.expected_start_time,
     state_id |-> NoState]

\* the unique index the insert resolves conflicts on
Conflicts(table, row) ==
    \E r \in table : r.idempotency_key = row.idempotency_key

\* faulty variant: a plain insert, no conflict clause
insert_without_conflict_clause(table, row) == table \cup {row}

\* faulty variant: on_conflict_do_update, the row with the key is overwritten
on_conflict_do_update(table, row) ==
    { r \in table : r.idempotency_key # row.idempotency_key } \cup {row}

\* insert.on_conflict_do_nothing(...): the table after inserting one row
on_conflict_do_nothing(table, row) ==
    IF Conflicts(table, row) THEN table ELSE table \cup {row}

\* the rows a session sees: the committed ones and its own
VisibleRuns(i) == (flow_run \ txDeleted[i]) \cup txRuns[i]
VisibleStates(i) == flow_run_state \cup txStates[i]

Open(j) == pc[j] \in {"insert", "probe", "states", "link", "returned"}

\* a row with the same key written by a transaction that is still open:
\* the unique index makes the insert wait for that transaction to end
UniqueIndexWait(i, row) ==
    \E j \in Invocations \ {i} : Open(j) /\ Conflicts(txRuns[j], row)

\* faulty variant: FlowRunState.id.isnot(None) in place of is_(None)
inserted_rows_with_state(runTable, stateTable, ids) ==
    { r.id : r \in { x \in runTable :
                       /\ x.id \in ids
                       /\ \E s \in stateTable : s.flow_run_id = x.id } }

\* faulty variant: every candidate id is taken as inserted, the table is not consulted
inserted_rows_all_candidates(runTable, stateTable, ids) == ids

\* select FlowRun.id left outer join FlowRunState
\*   where FlowRun.id in ids and FlowRunState.id is NULL
inserted_rows(runTable, stateTable, ids) ==
    { r.id : r \in { x \in runTable :
                       /\ x.id \in ids
                       /\ ~\E s \in stateTable : s.flow_run_id = x.id } }

\* faulty variant: a state row is written for whichever run holds the key of
\* a candidate and has no state, the row of the candidate or an older one
insert_flow_run_states_by_key(rs, ids) ==
    LET i == rs[1].id[1]
        holder(n) == CHOOSE r \in VisibleRuns(i) :
                        r.idempotency_key = rs[n].idempotency_key
    IN { [id |-> <<"state", rs[k].id>>, flow_run_id |-> holder(k).id,
          type |-> rs[k].state.type, scheduled_time |-> rs[k].state.scheduled_time,
          message |-> rs[k].state.message] :
            k \in { n \in 1..Len(rs) :
                      \A s \in VisibleStates(i) : s.flow_run_id # holder(n).id } }

\* faulty variant: the filter is inverted, `if r.id not in inserted_flow_run_ids`
insert_flow_run_states_inverted(rs, ids) ==
    { [id |-> <<"state", rs[k].id>>, flow_run_id |-> rs[k].id,
       type |-> rs[k].state.type, scheduled_time |-> rs[k].state.scheduled_time,
       message |-> rs[k].state.message] : k \in { n \in 1..Len(rs) : rs[n].id \notin ids } }

\* {"id": uuid4(), "flow_run_id": r.id, **r.state.dict()} for the new rows
insert_flow_run_states(rs, ids) ==
    { [id |-> <<"state", rs[k].id>>, flow_run_id |-> rs[k].id,
       type |-> rs[k].state.type, scheduled_time |-> rs[k].state.scheduled_time,
       message |-> rs[k].state.message] : k \in { n \in 1..Len(rs) : rs[n].id \in ids } }

\* update flow_run set state_id = <id of the inserted state of the run>
set_state_id_on_inserted_flow_runs(table, ids, states) ==
    { IF r.id \in ids /\ \E s \in states : s.flow_run_id = r.id
      THEN [r EXCEPT !.state_id = (CHOOSE s \in states : s.flow_run_id = r.id).id]
      ELSE r : r \in table }

\* faulty variant: `return runs`
ReturnAllCandidates(rs, ids) == rs

\* return [r for r in runs if r.id in inserted_flow_run_ids]
ReturnValue(rs, ids) ==
    LET keep(r) == r.id \in ids IN SelectSeq(rs, keep)

\* -------------------------------------------------------------------- Init
\* no invocation has begun; the tables hold the given rows
InitWith(table, rows) ==
    /\ deployments = table
    /\ flow_run = rows
    /\ flow_run_state = {}
    /\ pc = [i \in Invocations |-> "idle"]
    /\ args = [i \in Invocations |-> NoArgs]
    /\ runs = [i \in Invocations |-> <<>>]
    /\ idx = [i \in Invocations |-> 1]
    /\ txRuns = [i \in Invocations |-> {}]
    /\ txDeleted = [i \in Invocations |-> {}]
    /\ txStates = [i \in Invocations |-> {}]
    /\ inserted_flow_run_ids = [i \in Invocations |-> {}]
    /\ result = [i \in Invocations |-> <<>>]
    /\ took = [i \in Invocations |-> {}]
    /\ collided = [i \in Invocations |-> {}]
    /\ finishedBefore = [i \in Invocations |-> {}]
    /\ given = [i \in Invocations |-> NotGiven]

Init == InitWith(DeploymentTable, {})

\* ----------------------------------------------------------------- actions
\* the invocations that are over, with a commit or with an error
Over == { j \in Invocations :
            pc[j] \in {"done", "failed", "InvalidDeploymentState", "StorageUnavailable",
                       "crashed_stateless", "crashed_unlinked"} }

\* faulty variant: the first candidate is written as soon as it is built,
\* inside the loop over the dates
schedule_runs_call_writing_early(i, deployment_id, start_arg, end_arg, max_arg, now) ==
    LET a == effective_arguments(start_arg, end_arg, max_arg, now)
        rs == generate_scheduled_flow_runs(i, deployment_id, a.start_time,
                                           a.end_time, a.max_runs)
    IN /\ a.start_time < a.end_time
       /\ args' = [args EXCEPT ![i] =
                      IF Lacking(deployments[deployment_id])
                      THEN [NoArgs EXCEPT !.deployment_id = deployment_id]
                      ELSE [deployment_id |-> deployment_id,
                            start_time |-> a.start_time,
                            end_time |-> a.end_time,
                            max_runs |-> a.max_runs]]
       /\ runs' = [runs EXCEPT ![i] = rs]
       /\ txRuns' = [txRuns EXCEPT ![i] =
                        IF rs = <<>> THEN {}
                        ELSE on_conflict_do_nothing(VisibleRuns(i), Row(rs[1])) \ flow_run]
       /\ pc' = [pc EXCEPT ![i] =
                    IF build_raises(deployment_id, a.start_time, a.end_time, a.max_runs)
                    THEN "InvalidDeploymentState"
                    ELSE IF rs = <<>> THEN "returned" ELSE "insert"]
       /\ UNCHANGED <<deployments, flow_run, flow_run_state, idx, txDeleted,
                      txStates, inserted_flow_run_ids, result, took, collided>>

\* schedule_runs up to the end of _generate_scheduled_flow_runs and the
\* `if not runs` test: the arguments are defaulted and the candidates built,
\* or the error of the builder leaves the function
schedule_runs_call(i, deployment_id, start_arg, end_arg, max_arg, now) ==
    LET a == effective_arguments(start_arg, end_arg, max_arg, now)
        raises == build_raises(deployment_id, a.start_time, a.end_time, a.max_runs)
        rs == IF raises THEN <<>>
              ELSE generate_scheduled_flow_runs(i, deployment_id, a.start_time,
                                                a.end_time, a.max_runs)
    IN /\ a.start_time < a.end_time      \* the windows drawn are not empty
       /\ args' = [args EXCEPT ![i] =
                      \* of a call that returns at once only the
                      \* deployment is kept
                      IF Lacking(deployments[deployment_id])
                      THEN [NoArgs EXCEPT !.deployment_id = deployment_id]
                      ELSE [deployment_id |-> deployment_id,
                            start_time |-> a.start_time,
                            end_time |-> a.end_time,
                            max_runs |-> a.max_runs]]
       /\ runs' = [runs EXCEPT ![i] = rs]
       /\ pc' = [pc EXCEPT ![i] =
                    IF raises THEN "InvalidDeploymentState"
                    ELSE IF rs = <<>> THEN "returned" ELSE "insert"]
       /\ UNCHANGED <<deployments, flow_run, flow_run_state, idx, txRuns, txDeleted,
                      txStates, inserted_flow_run_ids, result, took, collided>>

\* a call of schedule_runs; the invocations are called in the order of
\* their numbers
schedule_runs(i) ==
    /\ pc[i] = "idle"
    /\ \A j \in 1..(i - 1) : pc[j] # "idle"
    /\ \E deployment_id \in DeploymentIds,
          start_arg \in Times \cup {None},
          end_arg \in (1..MaxTime) \cup {None},
          max_arg \in (1..MaxRunsArg) \cup {None} :
       \E now \in (IF start_arg = None THEN Times ELSE {0}) :
          schedule_runs_call(i, deployment_id, start_arg, end_arg, max_arg, now)
    /\ finishedBefore' = [finishedBefore EXCEPT ![i] = Over]
    /\ UNCHANGED given

\* the same call, with the arguments of the caller and the clock kept
schedule_runs_given(i) ==
    /\ pc[i] = "idle"
    /\ \A j \in 1..(i - 1) : pc[j] # "idle"
    /\ \E deployment_id \in DeploymentIds,
          start_arg \in Times \cup {None},
          end_arg \in (1..MaxTime) \cup {None},
          max_arg \in (1..MaxRunsArg) \cup {None},
          now \in Times :
          /\ schedule_runs_call(i, deployment_id, start_arg, end_arg, max_arg, now)
          /\ given' = [given EXCEPT ![i] =
                          [deployment_id |-> deployment_id, start_time |-> start_arg,
                           end_time |-> end_arg, max_runs |-> max_arg, now |-> now]]
    /\ finishedBefore' = [finishedBefore EXCEPT ![i] = Over]

\* schedule.get_dates raises: the error leaves schedule_runs before
\* _insert_scheduled_flow_runs is called
EnumerationFails(i) ==
    /\ pc[i] = "idle"
    /\ \A j \in 1..(i - 1) : pc[j] # "idle"
    /\ \E deployment_id \in DeploymentIds :
          /\ ~Lacking(deployments[deployment_id])
          /\ args' = [args EXCEPT ![i] = [NoArgs EXCEPT !.deployment_id = deployment_id]]
          /\ given' = [given EXCEPT ![i] =
                          [NotGiven EXCEPT !.deployment_id = deployment_id]]
    /\ pc' = [pc EXCEPT ![i] = "StorageUnavailable"]
    /\ finishedBefore' = [finishedBefore EXCEPT ![i] = Over]
    /\ UNCHANGED <<deployments, flow_run, flow_run_state, runs, idx, txRuns,
                   txDeleted, txStates, inserted_flow_run_ids, result, took,
                   collided>>

\* one row of the batch insert of _insert_scheduled_flow_runs
InsertRow(i) ==
    /\ pc[i] = "insert"
    /\ LET row == Row(runs[i][idx[i]])
           before == VisibleRuns(i)
           after == on_conflict_do_nothing(before, row)
       IN /\ ~UniqueIndexWait(i, row)
          /\ txRuns' = [txRuns EXCEPT ![i] = after \ flow_run]
          /\ txDeleted' = [txDeleted EXCEPT ![i] = flow_run \ after]
          /\ IF row \in after
             THEN /\ took' = [took EXCEPT ![i] = @ \cup {idx[i]}]
                  /\ UNCHANGED collided
             ELSE /\ collided' = [collided EXCEPT ![i] = @ \cup {idx[i]}]
                  /\ UNCHANGED took
    /\ idx' = [idx EXCEPT ![i] = IF idx[i] = Len(runs[i]) THEN 1 ELSE @ + 1]
    /\ pc' = [pc EXCEPT ![i] = IF idx[i] = Len(runs[i]) THEN "probe" ELSE "insert"]
    /\ UNCHANGED <<given, deployments, flow_run, flow_run_state, args, runs, txStates,
                   inserted_flow_run_ids, result, finishedBefore>>

\* the query for the newly inserted rows; with none the function returns
Probe(i) ==
    /\ pc[i] = "probe"
    /\ LET ids == inserted_rows(VisibleRuns(i), VisibleStates(i),
                                { r.id : r \in Range(runs[i]) })
       IN /\ inserted_flow_run_ids' = [inserted_flow_run_ids EXCEPT ![i] = ids]
          /\ IF insert_flow_run_states(runs[i], ids) = {}
             THEN /\ result' = [result EXCEPT ![i] = ReturnValue(runs[i], ids)]
                  /\ pc' = [pc EXCEPT ![i] = "returned"]
             ELSE /\ pc' = [pc EXCEPT ![i] = "states"]
                  /\ UNCHANGED result
    /\ UNCHANGED <<given, deployments, flow_run, flow_run_state, args, runs, idx, txRuns,
                   txDeleted, txStates, took, collided, finishedBefore>>

\* the insert of the flow run states
InsertStates(i) ==
    /\ pc[i] = "states"
    /\ txStates' = [txStates EXCEPT ![i] =
                       @ \cup insert_flow_run_states(runs[i], inserted_flow_run_ids[i])]
    /\ pc' = [pc EXCEPT ![i] = "link"]
    /\ UNCHANGED <<given, deployments, flow_run, flow_run_state, args, runs, idx, txRuns,
                   txDeleted, inserted_flow_run_ids, result, took, collided,
                   finishedBefore>>

\* the update of state_id on the inserted runs, and the return
SetStateId(i) ==
    /\ pc[i] = "link"
    /\ LET after == set_state_id_on_inserted_flow_runs(
                        VisibleRuns(i), inserted_flow_run_ids[i],
                        insert_flow_run_states(runs[i], inserted_flow_run_ids[i]))
       IN /\ txRuns' = [txRuns EXCEPT ![i] = after \ flow_run]
          /\ txDeleted' = [txDeleted EXCEPT ![i] = flow_run \ after]
    /\ result' = [result EXCEPT ![i] = ReturnValue(runs[i], inserted_flow_run_ids[i])]
    /\ pc' = [pc EXCEPT ![i] = "returned"]
    /\ UNCHANGED <<given, deployments, flow_run, flow_run_state, args, runs, idx, txStates,
                   inserted_flow_run_ids, took, collided, finishedBefore>>

\* the caller commits the session after schedule_runs returned
Commit(i) ==
    /\ pc[i] = "returned"
    /\ flow_run' = VisibleRuns(i)
    /\ flow_run_state' = flow_run_state \cup txStates[i]
    /\ pc' = [pc EXCEPT ![i] = "done"]
    /\ UNCHANGED <<given, deployments, args, runs, idx, txRuns, txDeleted, txStates,
                   inserted_flow_run_ids, result, took, collided, finishedBefore>>

\* a session.execute raises: the error reaches the caller, whose session is
\* rolled back; nothing of the invocation is left but that it failed
Abort(i) ==
    /\ pc[i] \in {"insert", "probe", "states", "link"}
    /\ txRuns' = [txRuns EXCEPT ![i] = {}]
    /\ txDeleted' = [txDeleted EXCEPT ![i] = {}]
    /\ txStates' = [txStates EXCEPT ![i] = {}]
    /\ idx' = [idx EXCEPT ![i] = 1]
    /\ inserted_flow_run_ids' = [inserted_flow_run_ids EXCEPT ![i] = {}]
    /\ took' = [took EXCEPT ![i] = {}]
    /\ collided' = [collided EXCEPT ![i] = {}]
    /\ runs' = [runs EXCEPT ![i] = <<>>]
    /\ args' = [args EXCEPT ![i] = [NoArgs EXCEPT !.deployment_id = args[i].deployment_id]]
    /\ pc' = [pc EXCEPT ![i] = "failed"]
    /\ UNCHANGED <<given, deployments, flow_run, flow_run_state, result, finishedBefore>>

\* the invocation fails after its batch insert created a run, before the
\* state rows are written or before state_id is set: the error reaches the
\* caller, whose session is rolled back; the arguments stay on record for the
\* retry
Crash(i) ==
    /\ pc[i] \in {"probe", "states", "link"}
    /\ took[i] # {}
    /\ txRuns' = [txRuns EXCEPT ![i] = {}]
    /\ txDeleted' = [txDeleted EXCEPT ![i] = {}]
    /\ txStates' = [txStates EXCEPT ![i] = {}]
    /\ inserted_flow_run_ids' = [inserted_flow_run_ids EXCEPT ![i] = {}]
    /\ took' = [took EXCEPT ![i] = {}]
    /\ collided' = [collided EXCEPT ![i] = {}]
    /\ runs' = [runs EXCEPT ![i] = <<>>]
    /\ pc' = [pc EXCEPT ![i] = IF pc[i] = "link" THEN "crashed_unlinked"
                                ELSE "crashed_stateless"]
    /\ UNCHANGED <<given, deployments, flow_run, flow_run_state, args, idx,
                   result, finishedBefore>>

Next ==
    \E i \in Invocations :
        \/ schedule_runs(i)
        \/ InsertRow(i)
        \/ Probe(i)
        \/ InsertStates(i)
        \/ SetStateId(i)
        \/ Commit(i)
        \/ Abort(i)

Spec == Init /\ [][Next]_vars

\* ------------------------------------------------ failures that are retried
\* the caller calls schedule_runs again when the call before is over and
\* its session committed or rolled back
schedule_runs_in_turn(i) ==
    /\ \A j \in Invocations : ~Open(j)
    /\ schedule_runs(i)

NextRetry ==
    \E i \in Invocations :
        \/ schedule_runs_in_turn(i)
        \/ InsertRow(i)
        \/ Probe(i)
        \/ InsertStates(i)
        \/ SetStateId(i)
        \/ Commit(i)
        \/ Crash(i)

SpecRetry == Init /\ [][NextRetry]_vars

\* ------------------------------------- a run without state from elsewhere
\* a run for the first date of d1 that another code path left in the table
\* with no state row
ForeignRun == Row(FlowRun(0, 1, DeploymentTable["d1"], "d1", 0))

InitForeign == InitWith(DeploymentTable, {ForeignRun})

SpecForeign == InitForeign /\ [][Next]_vars

\* --------------------------------------------- a schedule that repeats dates
\* the Deployment table with the schedule of d1 yielding every date twice
RepeatingTable == [DeploymentTable EXCEPT !["d1"].repeats = TRUE]

InitRepeating == InitWith(RepeatingTable, {})

SpecRepeating == InitRepeating /\ [][Next]_vars

\* ------------------------------------------- one invocation, arguments kept
\* the Deployment table with d3 given an active schedule and no flow_id
SingleTable ==
    [DeploymentTable EXCEPT !["d3"] = Deployment(TRUE, NoFlowId, TRUE, Times, TRUE)]

InitSingle == InitWith(SingleTable, {})

NextSingle ==
    \/ schedule_runs_given(1)
    \/ EnumerationFails(1)
    \/ InsertRow(1)
    \/ Probe(1)
    \/ InsertStates(1)
    \/ SetStateId(1)
    \/ Commit(1)
    \/ Abort(1)

SpecSingle == InitSingle /\ [][NextSingle]_vars

\* ------------------------------------------------------- notions for claims
Began(i) == pc[i] # "idle"
Returned(i) == pc[i] \in {"returned", "done"}
Committed(i) == pc[i] = "done"

Keys(table) == { r.idempotency_key : r \in table }
ResultKeys(i) == { result[i][k].idempotency_key : k \in 1..Len(result[i]) }
ResultIds(i) == { result[i][k].id : k \in 1..Len(result[i]) }
CandidateKeys(i) == { runs[i][k].idempotency_key : k \in 1..Len(runs[i]) }

\* the rows of every transaction that is committed or still open
AllRows == flow_run \cup UNION { txRuns[i] : i \in { j \in Invocations : Open(j) } }

\* the two windows share a time
Overlap(i, j) ==
    /\ args[i].start_time < args[j].end_time
    /\ args[j].start_time < args[i].end_time

\* j began while i had begun and was not yet over
Concurrent(i, j) == i < j /\ Began(j) /\ i \notin finishedBefore[j]

\* ---------------------------------------------------------------------- C1
\* C1: in every reachable state there is at most one run per idempotency key,
\* among the committed rows and the rows of the transactions still open,
\* whatever the number and interleaving of the schedule_runs invocations.
C1_AtMostOneRunPerKey ==
    \A r1 \in AllRows : \A r2 \in AllRows :
        r1.idempotency_key = r2.idempotency_key => r1 = r2

\* two concurrent invocations of one deployment with a common candidate key
\* are both committed
C1_Witness ==
    \E i \in Invocations : \E j \in Invocations :
        /\ Concurrent(i, j) /\ Committed(i) /\ Committed(j)
        /\ CandidateKeys(i) \cap CandidateKeys(j) # {}
        /\ took[i] # {} /\ took[j] # {}

\* ---------------------------------------------------------------------- C2
\* the schedule of the deployment has a date in the window of the arguments
YieldsDate(a) ==
    /\ ~Lacking(deployments[a.deployment_id])
    /\ \E t \in deployments[a.deployment_id].schedule :
          a.start_time <= t /\ t < a.end_time

\* i ran before anything else began
RanFirst(i) ==
    \A k \in Invocations \ {i} : Began(k) => i \in finishedBefore[k]

\* C2: of two invocations in sequence with identical arguments whose window
\* holds a date of the active schedule, the first returns a non-empty list and
\* the second an empty one, and the second writes no run and no state row.
C2_SecondCallEmpty ==
    \A i \in Invocations : \A j \in Invocations \ {i} :
        ( /\ Committed(i) /\ RanFirst(i)
          /\ Returned(j) /\ i \in finishedBefore[j]
          /\ args[i] = args[j] /\ YieldsDate(args[i]) )
        => /\ result[i] # <<>>
           /\ result[j] = <<>>
           /\ txRuns[j] = {} /\ txStates[j] = {}

C2_Witness ==
    \E i \in Invocations : \E j \in Invocations \ {i} :
        /\ Committed(i) /\ RanFirst(i)
        /\ Committed(j) /\ i \in finishedBefore[j]
        /\ args[i] = args[j] /\ YieldsDate(args[i])
        /\ Len(runs[j]) = 2

\* ---------------------------------------------------------------------- C3
\* C3: once schedule_runs has returned, every run of its result has a row, a
\* state row of type SCHEDULED, and a state_id that is the id of that state.
C3_ReturnedRunsHaveState ==
    \A i \in Invocations :
        Returned(i) =>
            \A k \in 1..Len(result[i]) :
                \E row \in VisibleRuns(i) : \E s \in VisibleStates(i) :
                    /\ row.id = result[i][k].id
                    /\ s.flow_run_id = row.id
                    /\ s.type = "SCHEDULED"
                    /\ row.state_id = s.id

C3_Witness ==
    \E i \in Invocations : pc[i] = "returned" /\ Len(result[i]) = 2

\* ---------------------------------------------------------------------- C4
InvocationsOf(d) == { i \in Invocations : Began(i) /\ args[i].deployment_id = d }
RowsOf(d) == { r \in flow_run : r.deployment_id = d }

UnionStart(I) == CHOOSE s \in { args[i].start_time : i \in I } :
                    \A i \in I : s <= args[i].start_time
UnionEnd(I) == CHOOSE e \in { args[i].end_time : i \in I } :
                    \A i \in I : args[i].end_time <= e

\* the number of dates of the schedule of d in [start, end)
DatesIn(d, start, end) ==
    Cardinality({ t \in deployments[d].schedule : start <= t /\ t < end })

\* the keys one invocation persists when it runs alone on an empty store
SequentialKeys(d, start, end, max_runs) ==
    LET rs == generate_scheduled_flow_runs(0, d, start, end, max_runs)
    IN { rs[k].idempotency_key : k \in 1..Len(rs) }

\* every invocation of d so far is committed, there are at least two, and any
\* two of their windows overlap
SettledOverlapping(d) ==
    /\ ~Lacking(deployments[d])
    /\ Cardinality(InvocationsOf(d)) >= 2
    /\ \A i \in InvocationsOf(d) : Committed(i)
    /\ \A i \in InvocationsOf(d) : \A j \in InvocationsOf(d) : Overlap(i, j)

\* C4 as stated: the invocations of one deployment with overlapping windows,
\* all called with the same max_runs, leave the runs of one invocation with
\* that max_runs over the union of the windows, each key once.
C4_Original ==
    \A d \in DeploymentIds :
        LET I == InvocationsOf(d) IN
        ( /\ SettledOverlapping(d)
          /\ \A i \in I : \A j \in I : args[i].max_runs = args[j].max_runs )
        => /\ Keys(RowsOf(d)) =
                SequentialKeys(d, UnionStart(I), UnionEnd(I),
                               args[CHOOSE i \in I : TRUE].max_runs)
           /\ Cardinality(RowsOf(d)) = Cardinality(Keys(RowsOf(d)))

\* C4 (amended): when max_runs cuts off no date, neither of any invocation's
\* window nor of the union for the sequential invocation, the invocations of
\* one deployment with overlapping windows leave, under every interleaving,
\* the runs of one invocation over the union of the windows, each key once.
C4_SameRunsAsSequential ==
    \A d \in DeploymentIds :
        LET I == InvocationsOf(d) IN
        ( /\ SettledOverlapping(d)
          /\ \A i \in I : args[i].max_runs >=
                             DatesIn(d, args[i].start_time, args[i].end_time) )
        => /\ Keys(RowsOf(d)) =
                SequentialKeys(d, UnionStart(I), UnionEnd(I),
                               DatesIn(d, UnionStart(I), UnionEnd(I)))
           /\ Cardinality(RowsOf(d)) = Cardinality(Keys(RowsOf(d)))

\* two concurrent invocations with different overlapping windows, neither cut
\* off by max_runs, each of which inserted a run
C4_Witness ==
    \E i \in Invocations : \E j \in Invocations :
        /\ Concurrent(i, j)
        /\ args[i].deployment_id = args[j].deployment_id
        /\ SettledOverlapping(args[i].deployment_id)
        /\ \A k \in InvocationsOf(args[i].deployment_id) :
              args[k].max_runs >= DatesIn(args[k].deployment_id,
                                          args[k].start_time, args[k].end_time)
        /\ args[i].start_time # args[j].start_time
        /\ took[i] # {} /\ took[j] # {}

\* ---------------------------------------------------------------------- C5
\* C5: every committed run, the only runs another session can read, has a
\* state row.
C5_NoRunWithoutStateVisible ==
    \A r \in flow_run : \E s \in flow_run_state : s.flow_run_id = r.id

\* runs are committed while an invocation has written runs and no state yet
C5_Witness ==
    \E i \in Invocations :
        /\ pc[i] \in {"probe", "states"}
        /\ txRuns[i] # {} /\ txStates[i] = {}
        /\ flow_run # {}

\* ---------------------------------------------------------------------- C6
\* C6: every committed run is in the result of exactly one committed
\* invocation, and no key is in the results of two invocations.
C6_ReportedExactlyOnce ==
    /\ \A r \in flow_run :
          Cardinality({ i \in Invocations :
                          Committed(i) /\ r.id \in ResultIds(i) }) = 1
    /\ \A i \in Invocations : \A j \in Invocations \ {i} :
          (Returned(i) /\ Returned(j)) => ResultKeys(i) \cap ResultKeys(j) = {}
    /\ \A i \in Invocations :
          Returned(i) => Cardinality(ResultKeys(i)) = Len(result[i])

\* two concurrent invocations with a common candidate key both return a run
C6_Witness ==
    \E i \in Invocations : \E j \in Invocations :
        /\ Concurrent(i, j) /\ Committed(i) /\ Committed(j)
        /\ CandidateKeys(i) \cap CandidateKeys(j) # {}
        /\ result[i] # <<>> /\ result[j] # <<>>

\* ---------------------------------------------------------------------- C7
\* C7: every step of an invocation whose deployment is missing, has no
\* schedule or has an inactive one ends in a return, never in an error, with
\* an empty result, and writes nothing: the invocation holds no written row
\* and both tables are as they were.
C7_LackingDeploymentNoWrites ==
    [][ \A i \in Invocations :
          ( /\ pc'[i] # pc[i]
            /\ ~deployments[args'[i].deployment_id].exists
               \/ ~deployments[args'[i].deployment_id].has_schedule
               \/ ~deployments[args'[i].deployment_id].is_schedule_active )
          => /\ pc'[i] \in {"returned", "done"}
             /\ result'[i] = <<>>
             /\ txRuns'[i] = {} /\ txStates'[i] = {}
             /\ flow_run' = flow_run
             /\ flow_run_state' = flow_run_state ]_vars

\* an invocation for the inactive deployment is over while runs are stored
C7_Witness ==
    \E i \in Invocations :
        /\ Committed(i)
        /\ args[i].deployment_id = "d4"
        /\ flow_run # {}

\* ---------------------------------------------------------------------- C8
\* C8: the result is the list of the candidates whose insert took effect, as
\* built: no candidate skipped on a key conflict is in it, and every returned
\* run is a candidate of the invocation whose row has the candidate's id.
C8_ResultIsNewlyInserted ==
    \A i \in Invocations :
        Returned(i) =>
            /\ ResultIds(i) = { runs[i][k].id : k \in took[i] }
            /\ Len(result[i]) = Cardinality(took[i])
            /\ \A k \in collided[i] : runs[i][k].id \notin ResultIds(i)
            /\ \A n \in 1..Len(result[i]) :
                  /\ result[i][n] \in Range(runs[i])
                  /\ \E row \in VisibleRuns(i) :
                        /\ row.id = result[i][n].id
                        /\ row.idempotency_key = result[i][n].idempotency_key

\* a later call whose window overlaps in part: one candidate collides with a
\* committed run, another is inserted
C8_Witness ==
    \E i \in Invocations : \E j \in Invocations :
        /\ Returned(i) /\ j \in finishedBefore[i] /\ Committed(j)
        /\ took[i] # {} /\ collided[i] # {}

\* ---------------------------------------------------------------------- C9
\* C9: no step changes or removes a committed run, every session reads the
\* committed runs as they are, and a candidate skipped on a key conflict does
\* not make the invocation fail.
C9_ExistingRunUnchanged ==
    [][ /\ \A r \in flow_run : r \in flow_run'
        /\ \A i \in Invocations : \A r \in flow_run' : r \in VisibleRuns(i)'
        /\ \A i \in Invocations :
              collided'[i] \ collided[i] # {} => pc'[i] \in {"insert", "probe"} ]_vars

\* a committed invocation had a candidate that collided with a run committed
\* before it began
C9_Witness ==
    \E i \in Invocations : \E j \in Invocations :
        /\ Committed(i) /\ collided[i] # {}
        /\ j \in finishedBefore[i] /\ Committed(j) /\ took[j] # {}

\* --------------------------------------------------------------------- C10
\* C10: every returned run is scheduled in [start_time, end_time) and the
\* result is no longer than max_runs.
C10_WindowAndCount ==
    \A i \in Invocations :
        Returned(i) =>
            /\ Len(result[i]) <= args[i].max_runs
            /\ \A k \in 1..Len(result[i]) :
                  /\ args[i].start_time <= result[i][k].state.scheduled_time
                  /\ result[i][k].state.scheduled_time < args[i].end_time
                  /\ result[i][k].expected_start_time =
                        result[i][k].state.scheduled_time

\* max_runs cut the dates of the window off
C10_Witness ==
    \E i \in Invocations :
        /\ Returned(i)
        /\ Len(result[i]) = args[i].max_runs
        /\ DatesIn(args[i].deployment_id, args[i].start_time, args[i].end_time)
              > args[i].max_runs

\* --------------------------------------------------------------------- C11
\* C11: the idempotency key of a candidate is determined by its deployment id
\* and its scheduled time alone: two candidates of one deployment for one
\* time carry the same key, whichever invocation built them, under whichever
\* run id and over whichever content of the tables, and the key of a row of
\* the table is the key of every candidate for its deployment and time.
C11_KeyDependsOnDeploymentAndTime ==
    /\ \A i \in Invocations : \A j \in Invocations :
          \A k \in 1..Len(runs[i]) : \A l \in 1..Len(runs[j]) :
             ( /\ runs[i][k].deployment_id = runs[j][l].deployment_id
               /\ runs[i][k].state.scheduled_time = runs[j][l].state.scheduled_time )
             => runs[i][k].idempotency_key = runs[j][l].idempotency_key
    /\ \A i \in Invocations : \A k \in 1..Len(runs[i]) : \A r \in AllRows :
          ( /\ runs[i][k].deployment_id = r.deployment_id
            /\ runs[i][k].state.scheduled_time = r.expected_start_time )
          => runs[i][k].idempotency_key = r.idempotency_key

\* an invocation that began over the rows another one committed built, under
\* another run id, a candidate for a deployment and time of the first
C11_Witness ==
    \E i \in Invocations : \E j \in Invocations \ {i} :
        /\ Committed(i) /\ took[i] # {} /\ i \in finishedBefore[j]
        /\ \E k \in 1..Len(runs[i]) : \E l \in 1..Len(runs[j]) :
              /\ runs[i][k].deployment_id = runs[j][l].deployment_id
              /\ runs[i][k].state.scheduled_time = runs[j][l].state.scheduled_time
              /\ runs[i][k].id # runs[j][l].id

\* --------------------------------------------------------------------- C12
\* C12: an invocation for a deployment with an active schedule and no flow_id
\* whose window holds a date ends with InvalidDeploymentState at the caller:
\* it builds no candidate, returns no list and writes no run and no state.
C12_MissingFlowIdRaises ==
    \A i \in Invocations :
        ( /\ Began(i) /\ YieldsDate(args[i])
          /\ InvalidDeploymentState(deployments[args[i].deployment_id]) )
        => /\ pc[i] = "InvalidDeploymentState"
           /\ runs[i] = <<>> /\ result[i] = <<>>
           /\ txRuns[i] = {} /\ txStates[i] = {}
           /\ flow_run = {} /\ flow_run_state = {}

C12_Witness ==
    \E i \in Invocations :
        /\ pc[i] = "InvalidDeploymentState"
        /\ YieldsDate(args[i])
        /\ deployments[args[i].deployment_id].flow_id = NoFlowId

\* --------------------------------------------------------------------- C13
\* the invocation keeps the arguments it worked with
KeepsArguments(i) ==
    /\ pc[i] \in {"insert", "probe", "states", "link", "returned", "done",
                  "InvalidDeploymentState"}
    /\ ~Lacking(deployments[given[i].deployment_id])

\* C13: an argument the caller leaves out takes its default, max_runs the
\* configured maximum, start_time the time of the clock, end_time the start
\* time in force (given or defaulted) plus the configured horizon; an argument
\* the caller gives is taken as it is; and the candidates are the dates the
\* schedule yields for the values in force.
C13_DefaultsOfArguments ==
    \A i \in Invocations :
        KeepsArguments(i) =>
           /\ args[i].deployment_id = given[i].deployment_id
           /\ args[i].max_runs = IF given[i].max_runs = None
                                 THEN scheduler_max_runs ELSE given[i].max_runs
           /\ args[i].start_time = IF given[i].start_time = None
                                   THEN given[i].now ELSE given[i].start_time
           /\ args[i].end_time = IF given[i].end_time = None
                                 THEN args[i].start_time + scheduler_max_scheduled_time
                                 ELSE given[i].end_time
           /\ pc[i] # "InvalidDeploymentState" =>
                 [k \in 1..Len(runs[i]) |-> runs[i][k].state.scheduled_time]
                    = get_dates(deployments[args[i].deployment_id].schedule,
                                args[i].max_runs, args[i].start_time, args[i].end_time)

\* a call with a start time and neither end time nor max_runs, made when the
\* clock shows another time than the start time, has built its candidates
C13_Witness ==
    \E i \in Invocations :
        /\ KeepsArguments(i) /\ runs[i] # <<>>
        /\ given[i].start_time # None /\ given[i].now # given[i].start_time
        /\ given[i].end_time = None /\ given[i].max_runs = None

\* a call with no argument but the deployment has built its candidates
C13_WitnessAllDefaults ==
    \E i \in Invocations :
        /\ KeepsArguments(i) /\ runs[i] # <<>>
        /\ given[i].start_time = None /\ given[i].end_time = None
        /\ given[i].max_runs = None

\* --------------------------------------------------------------------- C14
StatesOf(table, id) == { s \in table : s.flow_run_id = id }

\* C14: an invocation writes state rows only for the runs its own insert
\* created; every run of the table, and every run an invocation that returned
\* sees, has exactly one state row; and an invocation that returned wrote as
\* many state rows as its list has runs, one for each of them.
C14_OneStatePerCreatedRun ==
    /\ \A i \in Invocations : \A s \in txStates[i] :
          s.flow_run_id \in { runs[i][k].id : k \in took[i] }
    /\ \A r \in flow_run : Cardinality(StatesOf(flow_run_state, r.id)) = 1
    /\ \A i \in Invocations : Returned(i) =>
          /\ \A r \in txRuns[i] : Cardinality(StatesOf(VisibleStates(i), r.id)) = 1
          /\ Cardinality(txStates[i]) = Len(result[i])
          /\ { s.flow_run_id : s \in txStates[i] } = ResultIds(i)

\* an invocation is committed whose insert created a run for one candidate
\* and met the run of an earlier invocation for another
C14_Witness ==
    \E i \in Invocations :
        /\ Committed(i) /\ took[i] # {} /\ collided[i] # {}
        /\ Cardinality(txStates[i]) = 1

\* --------------------------------------------------------------------- C15
NothingWritten(i) == txRuns[i] = {} /\ txDeleted[i] = {} /\ txStates[i] = {}

\* C15: the step in which schedule_runs enumerates the dates and builds the
\* candidates writes nothing, whether it ends with the candidate list or with
\* an error of the enumeration or of the builder; the error ends the
\* invocation; and every step that writes a run or a state row is taken with
\* the complete candidate list of the arguments in hand.
C15_NoWriteBeforeCandidates ==
    [][ \A i \in Invocations :
          /\ pc[i] = "idle" =>
                /\ NothingWritten(i)' /\ NothingWritten(i)
                /\ pc'[i] # "idle" =>
                      flow_run' = flow_run /\ flow_run_state' = flow_run_state
          /\ pc'[i] \in {"InvalidDeploymentState", "StorageUnavailable"} =>
                /\ pc[i] \in {"idle", pc'[i]}
                /\ runs'[i] = <<>> /\ result'[i] = <<>>
          /\ ( /\ pc'[i] # "failed"
               /\ txRuns'[i] # txRuns[i] \/ txStates'[i] # txStates[i] ) =>
                /\ pc[i] \in {"insert", "states", "link"}
                /\ runs'[i] = runs[i]
                /\ runs[i] = generate_scheduled_flow_runs(
                                 i, args[i].deployment_id, args[i].start_time,
                                 args[i].end_time, args[i].max_runs)
      ]_vars

\* the enumeration of an invocation failed
C15_Witness ==
    \E i \in Invocations :
        /\ pc[i] = "StorageUnavailable"
        /\ NothingWritten(i) /\ flow_run = {} /\ flow_run_state = {}

\* an invocation has written a run
C15_WitnessWrite ==
    \E i \in Invocations : pc[i] = "probe" /\ txRuns[i] # {}

\* --------------------------------------------------------------------- C16
Crashed(i) == pc[i] \in {"crashed_stateless", "crashed_unlinked"}

\* the table holds for the key a run whose state_id is the id of a SCHEDULED
\* state row of that run
LinkedScheduled(key) ==
    \E r \in flow_run :
        /\ r.idempotency_key = key
        /\ \E s \in flow_run_state :
              /\ s.id = r.state_id /\ s.flow_run_id = r.id
              /\ s.type = "SCHEDULED"

\* the keys of the candidates the arguments yield
KeysOfArguments(a) ==
    { IdempotencyKey(a.deployment_id, t) :
        t \in Range(get_dates(deployments[a.deployment_id].schedule,
                              a.max_runs, a.start_time, a.end_time)) }

C16_WitnessStateless ==
    \E i \in Invocations : \E j \in Invocations \ {i} :
        /\ pc[i] = "crashed_stateless"
        /\ Committed(j) /\ i \in finishedBefore[j] /\ args[j] = args[i]
        /\ took[j] # {} /\ KeysOfArguments(args[i]) # {}

\* --------------------------------------------------------------------- C17
\* the table after the step holds the run with state_id set to a state row of it
LinkedAfterStep(id) ==
    \E r \in flow_run' :
        /\ r.id = id
        /\ \E s \in flow_run_state' : s.id = r.state_id /\ s.flow_run_id = r.id

AsScheduled(r, states) ==
    LET deployment == deployments[r.deployment_id]
    IN /\ Range(r.tags) = {"auto-scheduled"} \cup Range(deployment.tags)
       /\ r.flow_id = deployment.flow_id
       /\ r.parameters = deployment.parameters
       /\ r.state_type = "SCHEDULED"
       /\ \E s \in states :
             /\ s.id = r.state_id /\ s.flow_run_id = r.id
             /\ s.type = "SCHEDULED"
             /\ r.idempotency_key = IdempotencyKey(r.deployment_id, s.scheduled_time)

\* C18: every run schedule_runs created, in the table or in the session of an
\* invocation that returned, carries the tag auto-scheduled and all the tags
\* of its deployment, the flow_id and the parameters of the deployment, and
\* is linked to a SCHEDULED state whose scheduled time is the time its
\* idempotency key is made of; the runs of the returned list carry the same.
C18_CreatedRunCarriesDeployment ==
    /\ \A r \in flow_run : AsScheduled(r, flow_run_state)
    /\ \A i \in Invocations : Returned(i) =>
          /\ \A r \in txRuns[i] : AsScheduled(r, VisibleStates(i))
          /\ \A k \in 1..Len(result[i]) :
                LET r == result[i][k]
                IN /\ Range(r.tags) = {"auto-scheduled"}
                                         \cup Range(deployments[r.deployment_id].tags)
                   /\ r.flow_id = deployments[r.deployment_id].flow_id
                   /\ r.parameters = deployments[r.deployment_id].parameters
                   /\ r.state.type = "SCHEDULED"
                   /\ r.idempotency_key
                         = IdempotencyKey(r.deployment_id, r.state.scheduled_time)

\* the table holds runs for two times, created by committed invocations
C18_Witness ==
    /\ Cardinality(flow_run) >= 2
    /\ \E i \in Invocations : Committed(i) /\ Len(result[i]) >= 1

\* --------------------------------------------------------------------- C19
CandidateIds(i) == { runs[i][k].id : k \in 1..Len(runs[i]) }

\* the ids of the runs that were in the table when invocation i began: the
\* run from elsewhere and the runs of the invocations committed before
IdsBefore(i) ==
    {ForeignRun.id}
        \cup UNION { { r.id : r \in txRuns[j] } :
                        j \in { n \in finishedBefore[i] : Committed(n) } }

\* C19: the probe yields ids of candidates of its own invocation only, and
\* an invocation neither returns nor writes a state row for a run whose id
\* was in the table before it began; the run another code path left without
\* a state under the key of a candidate stays as it was.
C19_OlderRunsLeftAlone ==
    \A i \in Invocations :
        /\ inserted_flow_run_ids[i] \subseteq CandidateIds(i)
        /\ Began(i) =>
              /\ ResultIds(i) \cap IdsBefore(i) = {}
              /\ \A s \in txStates[i] : s.flow_run_id \notin IdsBefore(i)
              /\ ForeignRun \in VisibleRuns(i)
              /\ StatesOf(VisibleStates(i), ForeignRun.id) = {}

\* an invocation whose first candidate has the key of the run from elsewhere
\* is committed: the candidate was skipped and another one inserted
C19_Witness ==
    \E i \in Invocations :
        /\ Committed(i)
        /\ 1 \in collided[i] /\ runs[i][1].idempotency_key = ForeignRun.idempotency_key
        /\ took[i] # {}
        /\ ForeignRun \in flow_run

\* --------------------------------------------------------------------- C20
\* the positions of the list whose run has the key
PositionsOf(rs, key) == { k \in 1..Len(rs) : rs[k].idempotency_key = key }

\* the state rows invocation i sees for the key: those of a run with the key
\* and those written for a candidate with the key
StatesForKey(i, key) ==
    { s \in VisibleStates(i) :
        \/ \E r \in VisibleRuns(i) :
              r.id = s.flow_run_id /\ r.idempotency_key = key
        \/ \E j \in Invocations : \E k \in PositionsOf(runs[j], key) :
              runs[j][k].id = s.flow_run_id }

\* C20: when the candidates of one invocation hold a key more than once, the
\* invocation sees at most one run with the key at every step, and once it
\* has returned its list holds at most one run with the key and there is
\* exactly one state row for the key.
C20_RepeatedDateOnce ==
    \A i \in Invocations : \A key \in CandidateKeys(i) :
        Cardinality(PositionsOf(runs[i], key)) > 1 =>
           /\ Cardinality({ r \in VisibleRuns(i) : r.idempotency_key = key }) <= 1
           /\ Returned(i) =>
                 /\ Cardinality(PositionsOf(result[i], key)) <= 1
                 /\ Cardinality(StatesForKey(i, key)) = 1

\* an invocation with two candidates for one date is committed: the first
\* was inserted and returned, the second skipped
C20_Witness ==
    \E i \in Invocations :
        /\ Committed(i)
        /\ 1 \in took[i] /\ 2 \in collided[i]
        /\ runs[i][1].idempotency_key = runs[i][2].idempotency_key
        /\ Len(result[i]) = 1

====
